---- MODULE Spec2Model ----
(***************************************************************************)
(* A model of the sde crate: SdePoint arithmetic and projection            *)
(* (src/src/objects.rs) and the SdeManager queries and loaders             *)
(* (src/src/lib.rs) over a small relational source.                        *)
(*                                                                         *)
(* Machine integers are modelled in two's complement on Bits bits instead  *)
(* of 64, and f32 as the integers that have at most MantBits significant   *)
(* bits (instead of 24), so that wrap-around, saturation and rounding all  *)
(* happen on small values.                                                 *)
(***************************************************************************)
EXTENDS Integers, Sequences, FiniteSets, TLC

VARIABLES
    db,                  \* the SQLite source read through SdeManager.path
    factor,              \* SdeManager.factor (u64)
    invert_coordinates,  \* SdeManager.invert_coordinates
    overflow_checks,     \* build profile: TRUE when integer overflow panics
    universe,            \* SdeManager.universe
    point,               \* an SdePoint held by a caller
    ret,                 \* what the last call returned
    pool                 \* a worker-pool loader of Universe in progress

vars == <<db, factor, invert_coordinates, overflow_checks, universe, point, ret, pool>>

(***************************************************************************)
(* Bounds                                                                  *)
(***************************************************************************)
Bits == 3
MantBits == 2
MaxRegions == 2
MaxConstellations == 2
MaxSystems == 2
MaxPlanets == 2
MaxMoons == 2
MaxConnections == 2
MaxGateSystems == 3

(***************************************************************************)
(* Machine arithmetic                                                      *)
(***************************************************************************)
RECURSIVE Pow2(_)
Pow2(n) == IF n <= 0 THEN 1 ELSE 2 * Pow2(n - 1)

I64_MIN == -Pow2(Bits - 1)
I64_MAX == Pow2(Bits - 1) - 1
U64_MAX == Pow2(Bits) - 1
I64 == I64_MIN .. I64_MAX
U64 == 0 .. U64_MAX

Abs(a) == IF a < 0 THEN -a ELSE a

\* Rust's integer division: the quotient rounded towards zero.
TruncDiv(a, b) ==
    IF (a < 0) = (b < 0) THEN Abs(a) \div Abs(b) ELSE -(Abs(a) \div Abs(b))

\* `rhs as i64` for a u64: the same bits read as a signed number.
U64AsI64(u) == IF u > I64_MAX THEN u - Pow2(Bits) ELSE u

\* The bits of a mathematical integer kept in an i64 (wrapping arithmetic).
WrapI64(n) == ((n - I64_MIN) % Pow2(Bits)) + I64_MIN

\* Number of bits of a positive integer.
RECURSIVE BitLen(_)
BitLen(n) == IF n <= 0 THEN 0 ELSE 1 + BitLen(n \div 2)

\* `v as f32` for an integer: the nearest value with MantBits significant
\* bits, ties to the even mantissa.
AsF32(v) ==
    LET m == Abs(v)
        e == BitLen(m) - MantBits
        unit == Pow2(e)
        q == m \div unit
        r == m % unit
        up == (2 * r > unit) \/ (2 * r = unit /\ q % 2 = 1)
        rounded == IF up THEN (q + 1) * unit ELSE q * unit
    IN  IF e <= 0 THEN v ELSE IF v < 0 THEN -rounded ELSE rounded

\* `f as i64` for a float holding an integer: saturating.
F32AsI64(f) == IF f > I64_MAX THEN I64_MAX ELSE IF f < I64_MIN THEN I64_MIN ELSE f

\* f32::MAX as i64 and f32::MIN as i64 saturate to the ends of i64.
F32_MAX_as_i64 == F32AsI64(Pow2(2 * Bits))
F32_MIN_as_i64 == F32AsI64(-Pow2(2 * Bits))

(***************************************************************************)
(* SdePoint                                                                *)
(***************************************************************************)
SdePoint(x, y, z) == [x |-> x, y |-> y, z |-> z]
SdePoint_default == SdePoint(0, 0, 0)
Points == [x : I64, y : I64, z : I64]

\* impl From<[f32; 3]> for SdePoint: round, then `as i64`.
SdePoint_from_f32(a, b, c) == SdePoint(F32AsI64(a), F32AsI64(b), F32AsI64(c))

\* SdePoint::to_rawpoint: RawPoint::new(x as f32, z as f32).
to_rawpoint(p) == <<AsF32(p.x), AsF32(p.z)>>

\* One axis of `a / d`: Rust panics on a zero divisor and on MIN / -1.
DivPanics(a, d) == d = 0 \/ (d = -1 /\ a = I64_MIN)

\* impl DivAssign<u64> for SdePoint: self.x = self.x / rhs as i64; ...
DivAssign_u64(p, rhs) ==
    LET d == U64AsI64(rhs)
    IN  IF DivPanics(p.x, d) \/ DivPanics(p.y, d) \/ DivPanics(p.z, d)
        THEN [panic |-> TRUE, p |-> p]
        ELSE [panic |-> FALSE,
              p |-> SdePoint(TruncDiv(p.x, d), TruncDiv(p.y, d), TruncDiv(p.z, d))]

\* impl MulAssign<i32> for SdePoint: self.x = self.x * rhs as i64; ...
\* An overflowing product panics with overflow checks and wraps without.
MulAssign_i32(p, rhs, checks) ==
    LET m == [a \in {"x", "y", "z"} |-> p[a] * rhs]
        over == \E a \in {"x", "y", "z"} : m[a] < I64_MIN \/ m[a] > I64_MAX
    IN  IF over /\ checks
        THEN [panic |-> TRUE, p |-> p]
        ELSE [panic |-> FALSE,
              p |-> SdePoint(WrapI64(m.x), WrapI64(m.y), WrapI64(m.z))]

Overflows(p) ==
    \/ p.x > F32_MAX_as_i64 \/ p.x < F32_MIN_as_i64
    \/ p.y > F32_MAX_as_i64 \/ p.y < F32_MIN_as_i64
    \/ p.z > F32_MAX_as_i64 \/ p.z < F32_MIN_as_i64

Ok(v) == [status |-> "Ok", value |-> v]
Err(e) == [status |-> "Err", value |-> e]
Panic(e) == [status |-> "Panic", value |-> e]

\* TryInto_f32x2 with the y pivot returning the pair of the z pivot.
TryInto_f32x2_WrongPair(p) ==
    IF p.x = 0 THEN Ok(<<AsF32(p.y), AsF32(p.z)>>)
    ELSE IF p.y = 0 THEN Ok(<<AsF32(p.x), AsF32(p.y)>>)
    ELSE IF p.z = 0 THEN Ok(<<AsF32(p.x), AsF32(p.y)>>)
    ELSE Err("NotFound")

\* impl TryInto<[f32; 2]> for SdePoint
TryInto_f32x2(p) ==
    IF p.x = 0 THEN Ok(<<AsF32(p.y), AsF32(p.z)>>)
    ELSE IF p.y = 0 THEN Ok(<<AsF32(p.x), AsF32(p.z)>>)
    ELSE IF p.z = 0 THEN Ok(<<AsF32(p.x), AsF32(p.y)>>)
    ELSE Err("NotFound")

\* impl TryInto<[i64; 2]> for SdePoint
TryInto_i64x2(p) ==
    IF Overflows(p) THEN Err("InvalidData")
    ELSE IF p.x = 0 THEN Ok(<<p.y, p.z>>)
    ELSE IF p.y = 0 THEN Ok(<<p.x, p.z>>)
    ELSE IF p.z = 0 THEN Ok(<<p.x, p.y>>)
    ELSE Err("NotFound")

(***************************************************************************)
(* The source: the tables of the SQLite file, each keyed by its id         *)
(***************************************************************************)
RegionId(k) == 10000000 + k
ConstellationId(k) == 20000000 + k
SystemId(k) == 30000000 + k
PlanetId(k) == 40000000 + k
MoonId(k) == 40100000 + k

RegionName(k) == <<"Derelik", "Aridia", "Genesis", "Kador">>[k]
ConstellationName(k) == <<"Joas", "Fabai", "Sanctum", "Gademam">>[k]
SystemName(k) == <<"Tanoo", "Sasta", "Yuzier", "Nirbhi">>[k]

NoRows == [i \in {} |-> i]

\* Rows of a table in rowid order.
RECURSIVE SortedIds(_)
SortedIds(S) ==
    IF S = {} THEN <<>>
    ELSE LET m == CHOOSE a \in S : \A b \in S : a <= b
         IN  <<m>> \o SortedIds(S \ {m})

SeqToSet(s) == {s[i] : i \in DOMAIN s}

\* A source with one region, one constellation and one solar system whose
\* projected coordinates are p.
CoordDB(p) ==
    [regions        |-> (RegionId(1) :> [regionName |-> RegionName(1)]),
     constellations |-> (ConstellationId(1) :>
                            [constellationName |-> ConstellationName(1),
                             regionId |-> RegionId(1),
                             center |-> SdePoint(1, 2, 3)]),
     systems        |-> (SystemId(1) :>
                            [solarSystemName |-> SystemName(1),
                             constellationId |-> ConstellationId(1),
                             proj |-> p]),
     connections    |-> <<>>,
     gates          |-> NoRows,
     planets        |-> NoRows,
     moons          |-> NoRows]

\* The assignments of a parent 1..P to each of n children, children with
\* a larger id having the parent with the larger id.
Parents(n, P) ==
    {f \in [1..n -> 1..P] : \A i \in 1..(n - 1) : f[i] <= f[i + 1]}

ParentsUpTo(N, P) == UNION {Parents(n, P) : n \in 0..N}

\* What may be wrong with the last solar system of a source: nothing, a
\* negative projZ, or a negative solarSystemId.
Defects == {"none", "negz", "badid"}

\* A source with regions 1..nr, a constellation per entry of cp (its
\* region) and a solar system per entry of sp (its constellation); a parent
\* that is not a row of the parent table is a dangling reference.
StructDB(nr, cp, sp, defect) ==
    LET key(k) == IF defect = "badid" /\ k = Len(sp) THEN -1 ELSE SystemId(k)
        num(x) == IF x = -1 THEN Len(sp) ELSE x - SystemId(0)
    IN
    [regions        |-> [r \in {RegionId(k) : k \in 1..nr} |->
                            [regionName |-> RegionName(r - RegionId(0))]],
     constellations |-> [c \in {ConstellationId(k) : k \in DOMAIN cp} |->
                            LET k == c - ConstellationId(0)
                            IN  [constellationName |-> ConstellationName(k),
                                 regionId |-> RegionId(cp[k]),
                                 center |-> SdePoint(k, -k, k - 2)]],
     systems        |-> [x \in {key(k) : k \in DOMAIN sp} |->
                            LET k == num(x)
                            IN  [solarSystemName |-> SystemName(k),
                                 constellationId |-> ConstellationId(sp[k]),
                                 proj |-> SdePoint(k, 1 - k,
                                            IF defect = "negz" /\ k = Len(sp)
                                            THEN -1 ELSE k)]],
     connections    |-> <<>>,
     gates          |-> NoRows,
     planets        |-> NoRows,
     moons          |-> NoRows]

StructDBs ==
    {StructDB(nr, cp, sp, defect) :
        nr \in 0..MaxRegions,
        cp \in ParentsUpTo(MaxConstellations, MaxRegions),
        sp \in ParentsUpTo(MaxSystems, MaxConstellations),
        defect \in Defects}

\* A source with one region, constellation and solar system, a planet per
\* entry of pp (its solar system) and a moon per entry of mp (its planet).
PlanetDB(pp, mp) ==
    [StructDB(1, <<1>>, <<1>>, "none") EXCEPT
        !.planets = [x \in {PlanetId(k) : k \in DOMAIN pp} |->
                        [planetaryIndex |-> x - PlanetId(0),
                         solarSystemId |-> SystemId(pp[x - PlanetId(0)])]],
        !.moons = [x \in {MoonId(k) : k \in DOMAIN mp} |->
                        [moonIndex |-> x - MoonId(0),
                         solarSystemId |-> SystemId(1),
                         planetId |-> PlanetId(mp[x - MoonId(0)])]]]

PlanetDBs ==
    {PlanetDB(pp, mp) :
        pp \in ParentsUpTo(MaxPlanets, MaxSystems),
        mp \in ParentsUpTo(MaxMoons, MaxPlanets)}

(***************************************************************************)
(* SdeManager: coordinates                                                 *)
(***************************************************************************)
KSPACE_LO == 30000000
KSPACE_HI == 30999999

Some(v) == [some |-> TRUE, v |-> v]
None == [some |-> FALSE]

\* coord /= self.factor; if self.invert_coordinates { coord *= -1; }
ScaleAndInvert(coord, f, invert, checks) ==
    LET d == DivAssign_u64(coord, f)
    IN  IF d.panic THEN d
        ELSE IF invert THEN MulAssign_i32(d.p, -1, checks)
        ELSE d

\* The raw point get_systempoints builds from a row: each column read as
\* f32, then `as i64`.
RawOfRow(row) ==
    SdePoint(F32AsI64(AsF32(row.proj.x)), F32AsI64(AsF32(row.proj.y)),
             F32AsI64(AsF32(row.proj.z)))

MapPoint(id, raw, name) ==
    [id |-> id, raw |-> raw, name |-> name, connections |-> <<>>]

\* A band that leaves out its two bounds.
InBand_Exclusive(i) == KSPACE_LO < i /\ i < KSPACE_HI

\* WHERE SolarSystemId BETWEEN ?1 AND ?2, with params![30000000, 30999999]
InBand(i) == KSPACE_LO <= i /\ i <= KSPACE_HI

\* SdeManager::get_systempoints
get_systempoints(d, f, invert, checks) ==
    LET ids == {i \in DOMAIN d.systems : InBand(i)}
        coord(i) == ScaleAndInvert(RawOfRow(d.systems[i]), f, invert, checks)
    IN  IF \E i \in ids : coord(i).panic
        THEN Panic("arithmetic")
        ELSE Ok([i \in ids |->
                    MapPoint(i, to_rawpoint(coord(i).p),
                             d.systems[i].solarSystemName)])

\* SdeManager::get_system_coords
get_system_coords(d, f, invert, checks, id_node) ==
    IF id_node \in DOMAIN d.systems
    THEN LET row == d.systems[id_node]
             raw == SdePoint_from_f32(AsF32(row.proj.x), AsF32(row.proj.y),
                                      AsF32(row.proj.z))
             c == ScaleAndInvert(raw, f, invert, checks)
         IN  IF c.panic THEN Panic("arithmetic") ELSE Ok(Some(c.p))
    ELSE Ok(None)

(***************************************************************************)
(* SdeManager: connections                                                 *)
(***************************************************************************)
\* An f32 quotient a / b, kept as its two operands (b = 0 gives inf or NaN,
\* not a panic).
F32Div(a, b) == [num |-> a, den |-> b]
F32Neg(q) == [num |-> -(q.num), den |-> q.den]

\* RawPoint::from([i64; 2]), then `point /= self.factor` and, when
\* inverting, `point *= -1`.
ScaledRawPoint(a, b, f, invert) ==
    LET x == F32Div(AsF32(a), AsF32(f))
        y == F32Div(AsF32(b), AsF32(f))
    IN  IF invert THEN <<F32Neg(x), F32Neg(y)>> ELSE <<x, y>>

\* The rows of mapSystemConnections that join a solar system on both ends.
JoinedConnections(d) ==
    SelectSeq(d.connections,
              LAMBDA r : r.systemA \in DOMAIN d.systems
                         /\ r.systemB \in DOMAIN d.systems)

\* hmap.entry(id).or_insert(line) over the rows, in order.
RECURSIVE InsertLines(_, _)
InsertLines(hmap, lines) ==
    IF lines = <<>> THEN hmap
    ELSE LET l == Head(lines)
         IN  InsertLines(IF l.id \in DOMAIN hmap THEN hmap
                         ELSE hmap @@ (l.id :> l),
                         Tail(lines))

\* SdeManager::get_connections
get_connections(d, f, invert) ==
    LET rows == JoinedConnections(d)
        line(r) ==
            LET a == d.systems[r.systemA].proj
                b == d.systems[r.systemB].proj
            IN  [id |-> r.systemConnectionId,
                 points |->
                    <<ScaledRawPoint(F32AsI64(AsF32(a.x)), F32AsI64(AsF32(a.z)),
                                     f, invert),
                      ScaledRawPoint(F32AsI64(AsF32(b.x)), F32AsI64(AsF32(b.z)),
                                     f, invert)>>]
    IN  Ok(InsertLines(NoRows, [i \in DOMAIN rows |-> line(rows[i])]))

\* hash_map.entry(k).or_insert_with(..).connections.push(id)
PushConnection_Inserting(hash_map, k, id) ==
    IF k \in DOMAIN hash_map
    THEN [hash_map EXCEPT ![k].connections = Append(@, id)]
    ELSE hash_map @@ (k :> [MapPoint(k, <<0, 0>>, "") EXCEPT !.connections = <<id>>])

\* hash_map.entry(k).and_modify(|point| point.connections.push(id))
PushConnection(hash_map, k, id) ==
    IF k \in DOMAIN hash_map
    THEN [hash_map EXCEPT ![k].connections = Append(@, id)]
    ELSE hash_map

RECURSIVE PushRows(_, _)
PushRows(hash_map, rows) ==
    IF rows = <<>> THEN hash_map
    ELSE LET r == Head(rows)
         IN  PushRows(PushConnection(
                        PushConnection(hash_map, r.systemA, r.systemConnectionId),
                        r.systemB, r.systemConnectionId),
                      Tail(rows))

\* SdeManager::get_system_connections
get_system_connections(d, hash_map) == Ok(PushRows(hash_map, d.connections))

(***************************************************************************)
(* SdeManager: region areas                                                *)
(***************************************************************************)
REGION_LO == 10000000
REGION_HI == 10999999

\* The SQL functions SQLite knows among those the queries of the crate call.
SqliteFunctions == {"MAX", "MIN", "LOWER"}

\* The functions called by the query text of get_region_coordinates.
RegionAreaQueryFunctions == {"AX", "MAX", "MIN"}

SetMax(S) == CHOOSE a \in S : \A b \in S : b <= a
SetMin(S) == CHOOSE a \in S : \A b \in S : a <= b

\* The solar systems joined to region r through its constellations.
SystemsOfRegion(d, r) ==
    {i \in DOMAIN d.systems :
        /\ d.systems[i].constellationId \in DOMAIN d.constellations
        /\ d.constellations[d.systems[i].constellationId].regionId = r}

\* SdeManager::get_region_coordinates
get_region_coordinates(d, invert, checks) ==
    IF ~(RegionAreaQueryFunctions \subseteq SqliteFunctions)
    THEN Err("SqliteFailure: no such function")
    ELSE
      LET regs == SortedIds({r \in DOMAIN d.regions :
                               /\ REGION_LO <= r /\ r <= REGION_HI
                               /\ SystemsOfRegion(d, r) # {}})
      IN  \* region.region_id = row.get(1)?: column 1 is regionName, a text
          IF regs # <<>> THEN Err("InvalidColumnType")
          ELSE Ok(<<>>)

(***************************************************************************)
(* Universe and its entities                                               *)
(***************************************************************************)
\* Universe::new
Universe_new ==
    [regions |-> NoRows, constellations |-> NoRows, solar_systems |-> NoRows,
     dicts |-> [system_names |-> NoRows, constellation_names |-> NoRows,
                region_names |-> NoRows]]

\* String::to_lowercase on the names of the source.
to_lowercase(n) ==
    CASE n = "Derelik" -> "derelik" [] n = "Aridia" -> "aridia"
      [] n = "Genesis" -> "genesis" [] n = "Kador" -> "kador"
      [] n = "Joas" -> "joas" [] n = "Fabai" -> "fabai"
      [] n = "Sanctum" -> "sanctum" [] n = "Gademam" -> "gademam"
      [] n = "Tanoo" -> "tanoo" [] n = "Sasta" -> "sasta"
      [] n = "Yuzier" -> "yuzier" [] n = "Nirbhi" -> "nirbhi"
      [] OTHER -> n

(***************************************************************************)
(* SdeManager: the tier loaders                                            *)
(*                                                                         *)
(* A loader returns Ok with its entities or Err; `decoded` holds the       *)
(* entities it had pushed to its local result when it returned.  `fault`   *)
(* is what the environment does to the call: "open" fails opening the      *)
(* file, "rows" fails stepping the row query after its first row, and      *)
(* "children" fails the child-id query of the last entity.                 *)
(***************************************************************************)
Faults == {"none", "open", "rows", "children"}

Loaded(rows) == [status |-> "Ok", value |-> rows, decoded |-> rows]
Failed(e, rows) == [status |-> "Err", value |-> e, decoded |-> rows]
Panicked(e, rows) == [status |-> "Panic", value |-> e, decoded |-> rows]

FirstRow(rows) == IF rows = <<>> THEN <<>> ELSE <<rows[1]>>

\* Statement::query(params): the number of values bound must be the number
\* of placeholders of the statement.
BindsAll(placeholders, given) == placeholders = given

\* " WHERE col IN rarray(?1)" is appended for a non-empty filter only.
Placeholders(filter) == IF filter = {} THEN 0 ELSE 1
InFilter(filter, v) == filter = {} \/ v \in filter

\* row.get::<_, u32>(i) of an integer column: the value must be in range.
IsU32(v) == v >= 0

\* SdeManager::get_region
get_region(d, regions, fault) ==
    LET ids == SortedIds({r \in DOMAIN d.regions : InFilter(regions, r)})
        row(r) == [id |-> r, name |-> d.regions[r].regionName,
                   constellations |-> <<>>]
        rows == [i \in DOMAIN ids |-> row(ids[i])]
        children(r) ==
            SortedIds({c \in DOMAIN d.constellations :
                         d.constellations[c].regionId = r})
        filled(n) ==
            [i \in DOMAIN rows |->
                IF i <= n THEN [rows[i] EXCEPT !.constellations = children(rows[i].id)]
                ELSE rows[i]]
    IN  IF fault = "open" THEN Failed("CannotOpen", <<>>)
        ELSE IF fault = "rows" THEN Failed("SqliteFailure", FirstRow(rows))
        ELSE IF fault = "children" /\ rows # <<>>
        THEN Failed("SqliteFailure", filled(Len(rows) - 1))
        ELSE Loaded(filled(Len(rows)))

\* SdeManager::get_constellation
get_constellation(d, regions, fault) ==
    LET ids == SortedIds({c \in DOMAIN d.constellations :
                            InFilter(regions, d.constellations[c].regionId)})
        row(c) == [id |-> c, name |-> d.constellations[c].constellationName,
                   region |-> d.constellations[c].regionId,
                   solar_systems |-> <<>>]
        rows == [i \in DOMAIN ids |-> row(ids[i])]
        children(c) ==
            SortedIds({x \in DOMAIN d.systems : d.systems[x].constellationId = c})
        filled(n) ==
            [i \in DOMAIN rows |->
                IF i <= n THEN [rows[i] EXCEPT !.solar_systems = children(rows[i].id)]
                ELSE rows[i]]
        \* solar_systems.push(row.get(0).unwrap())
        unwraps == {i \in DOMAIN rows :
                      \E x \in SeqToSet(children(rows[i].id)) : ~IsU32(x)}
    IN  IF fault = "open" THEN Failed("CannotOpen", <<>>)
        ELSE IF ~BindsAll(Placeholders(regions), 1)
        THEN Failed("InvalidParameterCount", <<>>)
        ELSE IF fault = "rows" THEN Failed("SqliteFailure", FirstRow(rows))
        ELSE IF fault = "children" /\ rows # <<>>
                /\ \A i \in unwraps : i >= Len(rows)
        THEN Failed("SqliteFailure", filled(Len(rows) - 1))
        ELSE IF unwraps # {}
        THEN Panicked("called Result::unwrap() on an Err value",
                      filled(SetMin(unwraps) - 1))
        ELSE Loaded(filled(Len(rows)))

\* `a *= -1` on an i64 field.
NegPanics(a, checks) == checks /\ a = I64_MIN
Neg(a) == WrapI64(-a)

\* GateNeighbours following the destinations one gate further: the owners
\* of the gates reached through one or two gates.
GateNeighbours_TwoHops(d, x) ==
    LET own(S) == {h \in DOMAIN d.gates : d.gates[h].solarSystemId \in S}
        dests(S) == {d.gates[g].destination : g \in own(S)} \cap DOMAIN d.gates
        one == {d.gates[g].solarSystemId : g \in dests({x})}
        gs == SortedIds(dests({x}) \cup dests(one))
    IN  [i \in DOMAIN gs |-> d.gates[gs[i]].solarSystemId]

\* The solar systems that own a gate which is the destination of a gate of
\* system x, one per such gate.
GateNeighbours(d, x) ==
    LET dests == {d.gates[g].destination :
                    g \in {h \in DOMAIN d.gates : d.gates[h].solarSystemId = x}}
        gs == SortedIds({g \in DOMAIN d.gates : g \in dests})
    IN  [i \in DOMAIN gs |-> d.gates[gs[i]].solarSystemId]

\* SdeManager::get_solarsystem
get_solarsystem(d, constellation, f, invert, checks, fault) ==
    LET ids == SortedIds({x \in DOMAIN d.systems :
                            /\ d.systems[x].constellationId \in DOMAIN d.constellations
                            /\ InFilter(constellation, d.systems[x].constellationId)})
        mc(x) == d.constellations[d.systems[x].constellationId]
        \* object.id = row.get(0)?, and object.constellation = row.get(8)?:
        \* column 8 is mss.projZ, read as a u32
        bad(x) == ~IsU32(x) \/ ~IsU32(d.systems[x].proj.z)
        sgn(a) == IF invert THEN Neg(a) ELSE a
        panics(x) ==
            /\ invert
            /\ \E a \in {mc(x).center.x, mc(x).center.y, mc(x).center.z,
                         d.systems[x].proj.x, d.systems[x].proj.y} :
                  NegPanics(a, checks)
        row(x) ==
            [id |-> x, name |-> d.systems[x].solarSystemName,
             constellation |-> d.systems[x].proj.z,
             real_coords |-> SdePoint(sgn(mc(x).center.x), sgn(mc(x).center.y),
                                      sgn(mc(x).center.z)),
             projected_coords |-> SdePoint(sgn(d.systems[x].proj.x),
                                           sgn(d.systems[x].proj.y), 0),
             region |-> mc(x).regionId,
             planets |-> <<>>, connections |-> <<>>, factor |-> f]
        stop == {i \in DOMAIN ids : bad(ids[i]) \/ panics(ids[i])}
        n == IF stop = {} THEN Len(ids) ELSE SetMin(stop) - 1
        rows == [i \in 1..n |-> row(ids[i])]
        filled(k) ==
            [i \in DOMAIN rows |->
                IF i <= k THEN [rows[i] EXCEPT !.connections = GateNeighbours(d, rows[i].id)]
                ELSE rows[i]]
    IN  IF fault = "open" THEN Failed("CannotOpen", <<>>)
        ELSE IF ~BindsAll(Placeholders(constellation), 1)
        THEN Failed("InvalidParameterCount", <<>>)
        ELSE IF fault = "rows" /\ (n >= 1 \/ stop = {})
        THEN Failed("SqliteFailure", FirstRow(rows))
        ELSE IF stop # {}
        THEN IF bad(ids[n + 1])
             THEN Failed("IntegralValueOutOfRange", rows)
             ELSE Panicked("attempt to multiply with overflow", rows)
        ELSE IF fault = "children" /\ rows # <<>>
        THEN Failed("SqliteFailure", filled(Len(rows) - 1))
        ELSE Loaded(filled(Len(rows)))

\* SdeManager::get_planet
get_planet(d, solar_systems, fault) ==
    LET ids == SortedIds({x \in DOMAIN d.planets :
                            InFilter(solar_systems, d.planets[x].solarSystemId)})
        rows == [i \in DOMAIN ids |->
                    [id |-> ids[i],
                     solar_system |-> d.planets[ids[i]].solarSystemId,
                     index |-> d.planets[ids[i]].planetaryIndex]]
    IN  IF fault = "open" THEN Failed("CannotOpen", <<>>)
        ELSE IF ~BindsAll(Placeholders(solar_systems), 1)
        THEN Failed("InvalidParameterCount", <<>>)
        ELSE IF fault = "rows" THEN Failed("SqliteFailure", FirstRow(rows))
        ELSE Loaded(rows)

\* SdeManager::get_moon.  " WHERE planetId=?" compares planetId with the
\* bound array, a pointer value that SQL sees as NULL: no row is equal to it.
get_moon(d, planets, fault) ==
    LET ids == SortedIds({x \in DOMAIN d.moons : planets = {}})
        rows == [i \in DOMAIN ids |->
                    [id |-> ids[i],
                     planet |-> d.moons[ids[i]].planetId,
                     index |-> d.moons[ids[i]].moonIndex,
                     solar_system |-> d.moons[ids[i]].solarSystemId]]
    IN  IF fault = "open" THEN Failed("CannotOpen", <<>>)
        ELSE IF ~BindsAll(Placeholders(planets), 1)
        THEN Failed("InvalidParameterCount", <<>>)
        ELSE IF fault = "rows" THEN Failed("SqliteFailure", FirstRow(rows))
        ELSE Loaded(rows)

(***************************************************************************)
(* SolarSystem: coordinates as floats                                      *)
(***************************************************************************)
\* `v as f64` for an integer: the nearest value with Bits - 1 significant
\* bits, ties to the even mantissa.
AsF64(v) ==
    LET m == Abs(v)
        e == BitLen(m) - (Bits - 1)
        unit == Pow2(e)
        q == m \div unit
        r == m % unit
        up == (2 * r > unit) \/ (2 * r = unit /\ q % 2 = 1)
        rounded == IF up THEN (q + 1) * unit ELSE q * unit
    IN  IF e <= 0 THEN v ELSE IF v < 0 THEN -rounded ELSE rounded

\* SolarSystem::coord2d_to_f64
coord2d_to_f64(s) ==
    LET f == U64AsI64(s.factor)
    IN  IF DivPanics(s.projected_coords.x, f) \/ DivPanics(s.real_coords.y, f)
        THEN Panic("arithmetic")
        ELSE Ok(<<AsF64(TruncDiv(s.projected_coords.x, f)),
                  AsF64(TruncDiv(s.real_coords.y, f))>>)

\* SolarSystem::coord3d_to_f64
coord3d_to_f64(s) ==
    LET f == U64AsI64(s.factor)
    IN  IF DivPanics(s.projected_coords.x, f) \/ DivPanics(s.real_coords.y, f)
           \/ DivPanics(s.real_coords.z, f)
        THEN Panic("arithmetic")
        ELSE Ok(<<AsF64(TruncDiv(s.projected_coords.x, f)),
                  AsF64(TruncDiv(s.real_coords.y, f)),
                  AsF64(TruncDiv(s.real_coords.z, f))>>)

(***************************************************************************)
(* Universe::get_region                                                    *)
(***************************************************************************)
Reverse(q) == [i \in DOMAIN q |-> q[Len(q) + 1 - i]]

\* Universe::get_region, regions being None or Some(list).  The outer loop
\* ends after its first pass (param_values stays empty), so one id of the
\* list, its last, is ever bound.
Universe_get_region(d, regions) ==
    LET holes == IF regions.some THEN 1 ELSE 0
        vec_params == IF regions.some THEN regions.v ELSE <<>>
        binds == IF vec_params # <<>> THEN 1 ELSE 0
        id == IF vec_params # <<>> THEN vec_params[Len(vec_params)] ELSE 0
        temp_regions == SortedIds({r \in DOMAIN d.regions : holes = 1 => r = id})
        children(r) ==
            SortedIds({c \in DOMAIN d.constellations :
                         d.constellations[c].regionId = r})
        \* temp_regions.pop() takes the regions last first
        popped == Reverse(temp_regions)
    IN  IF binds # holes THEN Err("InvalidParameterCount")
        ELSE IF temp_regions = <<>>
        THEN Panic("called Option::unwrap() on a None value")
        ELSE Ok([i \in DOMAIN popped |->
                   [id |-> popped[i], name |-> d.regions[popped[i]].regionName,
                    constellations |-> children(popped[i])]])

(***************************************************************************)
(* Universe: the worker-pool loaders                                       *)
(***************************************************************************)
MAX_THREADS == 8
Workers == 1..MAX_THREADS

PoolOps == {"get_solarsystem", "get_constellation", "get_planet", "get_moon"}

\* Arc<Mutex<T>>: the thread holding the guard (0 for none) and the poison
\* flag a panicking holder leaves behind.
Mutex_new == [holder |-> 0, poisoned |-> FALSE]

\* Mutex::lock returning at once, whoever holds the guard.
CanLock_Held(m) == TRUE

\* Mutex::lock blocks the caller while another thread holds the guard.
CanLock(m) == m.holder = 0

\* What a worker keeps on its stack: whether its query text has the WHERE
\* clause, the rows of the query it is executing, and temp_vec.
NoLocals == [filtered |-> FALSE, rows |-> <<>>, temp_vec |-> <<>>]

NoPool ==
    [op |-> "none", filter |-> <<>>, status |-> "idle", spawned |-> 0,
     joined |-> 0,
     pc |-> [w \in Workers |-> "unspawned"],
     locals |-> [w \in Workers |-> NoLocals],
     kconn |-> Mutex_new, vec_parent_ids |-> Mutex_new, parent_ids |-> <<>>,
     vec_objects |-> <<>>, vec_result |-> <<>>]

\* The rows of the first query of a worker, in rowid order.
PoolRows(d, op, filtered, id) ==
    CASE op = "get_solarsystem" ->
            SortedIds({x \in DOMAIN d.systems :
                /\ d.systems[x].constellationId \in DOMAIN d.constellations
                /\ filtered => d.systems[x].constellationId = id})
      [] op = "get_constellation" ->
            SortedIds({c \in DOMAIN d.constellations :
                filtered => d.constellations[c].regionId = id})
      [] op = "get_planet" ->
            SortedIds({x \in DOMAIN d.planets :
                filtered => d.planets[x].solarSystemId = id})
      [] op = "get_moon" ->
            SortedIds({x \in DOMAIN d.moons :
                filtered => d.moons[x].planetId = id})

\* A row whose decoding panics: row.get(..).unwrap() of a value that is
\* no u32, or `*= -1` overflowing.
PoolRowPanics(d, op, x, invert, checks) ==
    \/ ~IsU32(x)
    \/ /\ op = "get_solarsystem"
       /\ \/ ~IsU32(d.systems[x].proj.z)
          \/ /\ invert
             /\ LET mc == d.constellations[d.systems[x].constellationId]
                IN  \E a \in {mc.center.x, mc.center.y, mc.center.z,
                              d.systems[x].proj.x, d.systems[x].proj.y} :
                        NegPanics(a, checks)

\* The rows of the second query of a worker, run once per object.
PoolChildren(d, op, x) ==
    CASE op = "get_solarsystem" -> GateNeighbours(d, x)
      [] op = "get_constellation" ->
            SortedIds({y \in DOMAIN d.systems : d.systems[y].constellationId = x})
      [] OTHER -> <<>>

HasSecondQuery(op) == op \in {"get_solarsystem", "get_constellation"}

\* The pcs at which a worker has a statement running on the connection.
QueryPcs == {"rows", "child_rows"}

\* A worker ends: its guards are dropped, and poisoned when it panicked.
Release(m, w, panicked) ==
    IF m.holder = w
    THEN [holder |-> 0, poisoned |-> m.poisoned \/ panicked]
    ELSE m

WorkerEnds(p, w, panicked) ==
    [p EXCEPT !.pc[w] = IF panicked THEN "panicked" ELSE "done",
              !.locals[w] = NoLocals,
              !.kconn = Release(p.kconn, w, panicked),
              !.vec_parent_ids = Release(p.vec_parent_ids, w, panicked)]

(***************************************************************************)
(* SdeManager::get_universe                                                *)
(***************************************************************************)
\* An entry that is removed when its key is already taken, and inserted
\* otherwise.
RECURSIVE InsertAll_Removing(_, _)
InsertAll_Removing(map, list) ==
    IF list = <<>> THEN map
    ELSE LET e == Head(list)
         IN  InsertAll_Removing(
                IF e.id \in DOMAIN map
                THEN [k \in DOMAIN map \ {e.id} |-> map[k]]
                ELSE map @@ (e.id :> e),
                Tail(list))

\* map.entry(key).or_insert(value) for each entity of a list, in order.
RECURSIVE InsertAll(_, _)
InsertAll(map, list) ==
    IF list = <<>> THEN map
    ELSE LET e == Head(list)
         IN  InsertAll(IF e.id \in DOMAIN map THEN map ELSE map @@ (e.id :> e),
                       Tail(list))

\* dict.entry(name.to_lowercase()).or_insert(id) for each entity, in order.
RECURSIVE InsertNames(_, _)
InsertNames(dict, list) ==
    IF list = <<>> THEN dict
    ELSE LET e == Head(list)
             k == to_lowercase(e.name)
         IN  InsertNames(IF k \in DOMAIN dict THEN dict ELSE dict @@ (k :> e.id),
                         Tail(list))

\* The ids of a list but that of its last entity.
Ids_WithoutLast(list) == {list[i].id : i \in 1..(Len(list) - 1)}

\* parent_ids.push(entity.id) for each entity of a list
Ids(list) == {list[i].id : i \in DOMAIN list}

\* `let xs = self.get_x(..)?;`: the entities that reach the merge loop.
Entities(r) == IF r.status = "Ok" THEN r.value ELSE <<>>

\* SdeManager::get_universe.  `fault` names the tier call the environment
\* fails and how.  The result holds the universe after the call, what the
\* call returned, the tier that failed and the ids that tier had decoded.
get_universe(d, u, f, invert, checks, fault) ==
    LET flt(t) == IF fault.tier = t THEN fault.kind ELSE "none"
        regions == get_region(d, {}, flt("region"))
        u1 == [u EXCEPT
                 !.dicts.region_names = InsertNames(@, Entities(regions)),
                 !.regions = InsertAll(@, Entities(regions))]
        constellations == get_constellation(d, Ids(Entities(regions)),
                                            flt("constellation"))
        u2 == [u1 EXCEPT
                 !.dicts.constellation_names =
                     InsertNames(@, Entities(constellations)),
                 !.constellations = InsertAll(@, Entities(constellations))]
        solar_systems == get_solarsystem(d, Ids(Entities(constellations)),
                                         f, invert, checks, flt("solarsystem"))
        u3 == [u2 EXCEPT
                 !.dicts.constellation_names =
                     InsertNames(@, Entities(solar_systems)),
                 !.solar_systems = InsertAll(@, Entities(solar_systems))]
        out(un, r, t) ==
            [universe |-> un, status |-> r.status,
             value |-> IF r.status = "Ok" THEN TRUE ELSE r.value,
             failed |-> t,
             decoded |-> IF t = "none" THEN {} ELSE Ids(r.decoded)]
    IN  IF regions.status # "Ok" THEN out(u1, regions, "region")
        ELSE IF constellations.status # "Ok"
        THEN out(u2, constellations, "constellation")
        ELSE IF solar_systems.status # "Ok"
        THEN out(u3, solar_systems, "solarsystem")
        ELSE out(u3, solar_systems, "none")

NoCall == [op |-> "none", status |-> "Ok", value |-> 0]
Call(op, args, r) ==
    [op |-> op, args |-> args, status |-> r.status, value |-> r.value]

(***************************************************************************)
(* Actions                                                                 *)
(***************************************************************************)
Settings == <<db, factor, invert_coordinates, overflow_checks>>

TryIntoF32 ==
    /\ ret' = Call("try_into_f32x2", point, TryInto_f32x2(point))
    /\ UNCHANGED <<Settings, universe, point, pool>>

TryIntoI64 ==
    /\ ret' = Call("try_into_i64x2", point, TryInto_i64x2(point))
    /\ UNCHANGED <<Settings, universe, point, pool>>

GetSystemPoints ==
    /\ ret' = Call("get_systempoints", <<>>,
                   get_systempoints(db, factor, invert_coordinates, overflow_checks))
    /\ UNCHANGED <<Settings, universe, point, pool>>

GetSystemCoords ==
    \E id \in DOMAIN db.systems \cup {SystemId(4)} :
        /\ ret' = Call("get_system_coords", id,
                       get_system_coords(db, factor, invert_coordinates,
                                         overflow_checks, id))
        /\ UNCHANGED <<Settings, universe, point, pool>>

\* get_solarsystem for the constellations of the source, then the float
\* coordinates of one of the solar systems it returned.
GetSolarsystemCoords ==
    LET r == get_solarsystem(db, DOMAIN db.constellations, factor,
                             invert_coordinates, overflow_checks, "none")
    IN  /\ \/ /\ r.status # "Ok"
              /\ ret' = Call("get_solarsystem", DOMAIN db.constellations, r)
           \/ /\ r.status = "Ok"
              /\ \E i \in DOMAIN r.value :
                    \/ ret' = Call("coord2d_to_f64", r.value[i].id,
                                   coord2d_to_f64(r.value[i]))
                    \/ ret' = Call("coord3d_to_f64", r.value[i].id,
                                   coord3d_to_f64(r.value[i]))
        /\ UNCHANGED <<Settings, universe, point, pool>>

GetConnections ==
    /\ ret' = Call("get_connections", <<>>,
                   get_connections(db, factor, invert_coordinates))
    /\ UNCHANGED <<Settings, universe, point, pool>>

\* The caller passes the points of get_systempoints, or some of them.
GetSystemConnections ==
    LET pts == get_systempoints(db, factor, invert_coordinates, overflow_checks)
    IN  /\ pts.status = "Ok"
        /\ \E K \in SUBSET DOMAIN pts.value :
            LET hash_map == [k \in K |-> pts.value[k]]
            IN  ret' = Call("get_system_connections", hash_map,
                            get_system_connections(db, hash_map))
        /\ UNCHANGED <<Settings, universe, point, pool>>

GetRegionCoordinates ==
    /\ ret = NoCall
    /\ ret' = Call("get_region_coordinates", <<>>,
                   get_region_coordinates(db, invert_coordinates, overflow_checks))
    /\ UNCHANGED <<Settings, universe, point, pool>>

UniverseFaults ==
    {[tier |-> "none", kind |-> "none"]}
        \cup [tier : {"region", "constellation", "solarsystem"},
              kind : Faults \ {"none"}]

GetUniverse ==
    \E fault \in UniverseFaults :
        LET r == get_universe(db, universe, factor, invert_coordinates,
                              overflow_checks, fault)
        IN  /\ universe' = r.universe
            /\ ret' = [op |-> "get_universe", args |-> universe,
                       status |-> r.status, value |-> r.value,
                       failed |-> r.failed, decoded |-> r.decoded]
            /\ UNCHANGED <<Settings, point, pool>>

\* The caller drops the result of its last call.
DropResult ==
    /\ ret # NoCall
    /\ ret' = NoCall
    /\ UNCHANGED <<Settings, universe, point, pool>>

\* The tier loaders, each called by a caller that holds no result.
GetRegion ==
    \E F \in SUBSET {RegionId(k) : k \in 1..MaxRegions} :
        /\ ret = NoCall
        /\ ret' = Call("get_region", F, get_region(db, F, "none"))
        /\ UNCHANGED <<Settings, universe, point, pool>>

\* A caller asks the manager for the region areas and for the system
\* points, one call after the other.
GetAreasAndPoints ==
    /\ ret = NoCall
    /\ ret' = [op |-> "areas_and_points", args |-> <<>>, status |-> "Ok",
               value |->
                 [areas |-> get_region_coordinates(db, invert_coordinates,
                                                   overflow_checks),
                  points |-> get_systempoints(db, factor, invert_coordinates,
                                              overflow_checks)]]
    /\ UNCHANGED <<Settings, universe, point, pool>>

\* The lists of distinct region ids a caller may pass.
RegionIdLists ==
    {q \in UNION {[1..n -> {RegionId(k) : k \in 1..MaxRegions}] :
                     n \in 0..MaxRegions} :
        \A i, j \in DOMAIN q : q[i] = q[j] => i = j}

UniverseGetRegion ==
    \E regions \in {None} \cup {Some(q) : q \in RegionIdLists} :
        /\ ret = NoCall
        /\ ret' = Call("Universe::get_region", regions,
                       Universe_get_region(db, regions))
        /\ UNCHANGED <<Settings, universe, point, pool>>

GetConstellation ==
    \E F \in SUBSET {RegionId(k) : k \in 1..MaxRegions} :
        /\ ret = NoCall
        /\ ret' = Call("get_constellation", F, get_constellation(db, F, "none"))
        /\ UNCHANGED <<Settings, universe, point, pool>>

GetSolarsystem ==
    \E F \in SUBSET {ConstellationId(k) : k \in 1..MaxConstellations} :
        /\ ret = NoCall
        /\ ret' = Call("get_solarsystem", F,
                       get_solarsystem(db, F, factor, invert_coordinates,
                                       overflow_checks, "none"))
        /\ UNCHANGED <<Settings, universe, point, pool>>

GetPlanet ==
    \E F \in SUBSET {SystemId(k) : k \in 1..MaxSystems} :
        /\ ret = NoCall
        /\ ret' = Call("get_planet", F, get_planet(db, F, "none"))
        /\ UNCHANGED <<Settings, universe, point, pool>>

GetMoon ==
    \E F \in SUBSET {PlanetId(k) : k \in 1..MaxPlanets} :
        /\ ret = NoCall
        /\ ret' = Call("get_moon", F, get_moon(db, F, "none"))
        /\ UNCHANGED <<Settings, universe, point, pool>>

(***************************************************************************)
(* SpecPoint: the conversions of one SdePoint                              *)
(***************************************************************************)
InitPoint ==
    /\ point \in Points
    /\ pool = NoPool
    /\ db = CoordDB(SdePoint_default)
    /\ factor = 1
    /\ invert_coordinates = TRUE
    /\ overflow_checks = TRUE
    /\ universe = Universe_new
    /\ ret = NoCall

NextPoint == TryIntoF32 \/ TryIntoI64

SpecPoint == InitPoint /\ [][NextPoint]_vars

(***************************************************************************)
(* SpecCoord: scaling and inverting the coordinates of one solar system    *)
(***************************************************************************)
EdgeAxis == {I64_MIN, 0, I64_MAX}

InitCoord ==
    /\ db \in {CoordDB(p) : p \in [x : I64, y : EdgeAxis, z : I64]}
    /\ factor \in U64
    /\ invert_coordinates \in BOOLEAN
    /\ overflow_checks \in BOOLEAN
    /\ universe = Universe_new
    /\ point = SdePoint_default
    /\ pool = NoPool
    /\ ret = NoCall

NextCoord == GetSystemPoints \/ GetSystemCoords \/ GetSolarsystemCoords

SpecCoord == InitCoord /\ [][NextCoord]_vars

(***************************************************************************)
(* SpecBand: solar systems at the edges of the known-space id band         *)
(***************************************************************************)
\* The ids next to the two bounds of the band, on both sides.
BandIds ==
    {KSPACE_LO - 1, KSPACE_LO, KSPACE_LO + 1, KSPACE_HI - 1, KSPACE_HI,
     KSPACE_HI + 1}

BandName(i) ==
    CASE i = KSPACE_LO - 1 -> "Below" [] i = KSPACE_LO -> "First"
      [] i = KSPACE_LO + 1 -> "Second" [] i = KSPACE_HI - 1 -> "Penultimate"
      [] i = KSPACE_HI -> "Last" [] OTHER -> "Above"

\* A source whose solar systems have the ids S, all in one constellation.
BandDB(S) ==
    [CoordDB(SdePoint_default) EXCEPT
        !.systems = [i \in S |->
                        [solarSystemName |-> BandName(i),
                         constellationId |-> ConstellationId(1),
                         proj |-> SdePoint(1, 0, -2)]]]

InitBand ==
    /\ db \in {BandDB(S) : S \in SUBSET BandIds}
    /\ factor \in 1..2
    /\ invert_coordinates \in BOOLEAN
    /\ overflow_checks = TRUE
    /\ universe = Universe_new
    /\ point = SdePoint_default
    /\ pool = NoPool
    /\ ret = NoCall

NextBand == GetSystemPoints \/ GetSystemCoords

SpecBand == InitBand /\ [][NextBand]_vars

(***************************************************************************)
(* SpecConn: the connection rows of a source with two solar systems        *)
(***************************************************************************)
ConnectionName(i) == <<"c1", "c2", "c3", "c4">>[i]

\* Two solar systems; a connection row names them or a system that is not
\* in mapSolarSystems.
ConnSystems ==
    [i \in {SystemId(1), SystemId(2)} |->
        [solarSystemName |-> SystemName(i - SystemId(0)),
         constellationId |-> ConstellationId(1),
         proj |-> SdePoint(i - SystemId(0), 0, 1 - (i - SystemId(0)))]]

ConnEnds == {SystemId(1), SystemId(2), SystemId(3)}

ConnTables ==
    UNION {[1..n -> ConnEnds \X ConnEnds] : n \in 0..MaxConnections}

ConnDB(t) ==
    [CoordDB(SdePoint_default) EXCEPT
        !.systems = ConnSystems,
        !.connections =
            [i \in DOMAIN t |->
                [systemConnectionId |-> ConnectionName(i),
                 systemA |-> t[i][1], systemB |-> t[i][2]]]]

InitConn ==
    /\ db \in {ConnDB(t) : t \in ConnTables}
    /\ factor = 2
    /\ invert_coordinates \in BOOLEAN
    /\ overflow_checks = TRUE
    /\ universe = Universe_new
    /\ point = SdePoint_default
    /\ pool = NoPool
    /\ ret = NoCall

NextConn == GetConnections \/ GetSystemConnections

SpecConn == InitConn /\ [][NextConn]_vars

(***************************************************************************)
(* SpecAbstract: the connections of the abstract map                       *)
(***************************************************************************)
AbstractIds == {SystemId(1), SystemId(2), SystemId(3)}

\* The rows of mapSystemConnections joined to mapAbstractSystems on both
\* ends, kept when no region is given or when either end is in a region of
\* the list.
AbstractJoined(d, regions) ==
    SelectSeq(d.connections,
              LAMBDA r : /\ r.systemA \in DOMAIN d.abstractSystems
                         /\ r.systemB \in DOMAIN d.abstractSystems
                         /\ \/ regions = {}
                            \/ d.abstractSystems[r.systemA].regionId \in regions
                            \/ d.abstractSystems[r.systemB].regionId \in regions)

\* SdeManager::get_abstract_connections
get_abstract_connections(d, regions) ==
    LET rows == AbstractJoined(d, regions)
        line(r) ==
            [id |-> r.systemConnectionId,
             points |-> <<<<d.abstractSystems[r.systemA].x,
                            d.abstractSystems[r.systemA].y>>,
                          <<d.abstractSystems[r.systemB].x,
                            d.abstractSystems[r.systemB].y>>>>]
    IN  Ok(InsertLines(NoRows, [i \in DOMAIN rows |-> line(rows[i])]))

GetAbstractConnections ==
    \E F \in SUBSET {RegionId(k) : k \in 1..MaxRegions} :
        /\ ret' = Call("get_abstract_connections", F,
                       get_abstract_connections(db, F))
        /\ UNCHANGED <<Settings, universe, point, pool>>

\* A source whose abstract map has the solar systems 1..3, system k in the
\* region rg[k], and the connection rows of t.
AbstractDB(rg, t) ==
    LET c == ConnDB(t)
    IN  [regions |-> [r \in {RegionId(k) : k \in 1..MaxRegions} |->
                         [regionName |-> RegionName(r - RegionId(0))]],
         constellations |-> c.constellations, systems |-> c.systems,
         connections |-> c.connections, gates |-> c.gates,
         planets |-> c.planets, moons |-> c.moons,
         abstractSystems |->
            [x \in AbstractIds |->
                LET k == x - SystemId(0)
                IN  [x |-> k, y |-> -k, regionId |-> RegionId(rg[k])]]]

InitAbstract ==
    /\ db \in {AbstractDB(rg, t) : rg \in [1..3 -> 1..MaxRegions],
                                   t \in ConnTables}
    /\ factor = 1
    /\ invert_coordinates = TRUE
    /\ overflow_checks = TRUE
    /\ universe = Universe_new
    /\ point = SdePoint_default
    /\ pool = NoPool
    /\ ret = NoCall

NextAbstract == GetAbstractConnections

SpecAbstract == InitAbstract /\ [][NextAbstract]_vars

(***************************************************************************)
(* SpecTiers: single calls of the tier loaders and of the region areas     *)
(***************************************************************************)
InitTiers ==
    /\ db \in StructDBs \cup PlanetDBs
    /\ factor = 1
    /\ invert_coordinates = TRUE
    /\ overflow_checks = TRUE
    /\ universe = Universe_new
    /\ point = SdePoint_default
    /\ pool = NoPool
    /\ ret = NoCall

NextTiers ==
    \/ GetRegion \/ GetConstellation \/ GetSolarsystem \/ GetPlanet \/ GetMoon
    \/ GetRegionCoordinates \/ GetAreasAndPoints \/ UniverseGetRegion
    \/ DropResult

SpecTiers == InitTiers /\ [][NextTiers]_vars

(***************************************************************************)
(* SpecWorkers: a worker-pool loader of Universe, thread by thread         *)
(***************************************************************************)
\* The ids a caller may pass as the filter of a loader: the rows of the
\* parent table.
PoolParentIds(d, op) ==
    CASE op = "get_solarsystem" -> DOMAIN d.constellations
      [] op = "get_constellation" -> DOMAIN d.regions
      [] op = "get_planet" -> DOMAIN d.systems
      [] op = "get_moon" -> DOMAIN d.planets

\* The caller enters a loader: the connection, the list of objects and the
\* parent ids go behind their mutexes.
PoolStart ==
    /\ pool.op = "none"
    /\ \E op \in PoolOps :
       \E F \in SUBSET PoolParentIds(db, op) :
          pool' = [NoPool EXCEPT !.op = op, !.filter = SortedIds(F),
                                 !.status = "running",
                                 !.parent_ids = SortedIds(F)]
    /\ UNCHANGED <<Settings, universe, point, ret>>

\* thread::spawn of the next worker
Spawn ==
    /\ pool.status = "running"
    /\ pool.spawned < MAX_THREADS
    /\ pool' = [pool EXCEPT !.spawned = @ + 1, !.pc[pool.spawned + 1] = "spawned"]
    /\ UNCHANGED <<Settings, universe, point, ret>>

\* let thread_connection = &sh_conn.lock().unwrap();
LockConnection(w) ==
    /\ pool.pc[w] = "spawned"
    /\ CanLock(pool.kconn)
    /\ pool' = IF pool.kconn.poisoned
               THEN WorkerEnds(pool, w, TRUE)
               ELSE [pool EXCEPT !.kconn.holder = w, !.pc[w] = "locked"]
    /\ UNCHANGED <<Settings, universe, point, ret>>

\* let vec_parent_ids = &mut sh_parent_ids.lock().unwrap(); and the WHERE
\* clause appended when the list has ids left
LockParentIds(w) ==
    /\ pool.pc[w] = "locked"
    /\ CanLock(pool.vec_parent_ids)
    /\ pool' = IF pool.vec_parent_ids.poisoned
               THEN WorkerEnds(pool, w, TRUE)
               ELSE [pool EXCEPT !.vec_parent_ids.holder = w,
                                 !.locals[w].filtered = pool.parent_ids # <<>>,
                                 !.pc[w] = "loop"]
    /\ UNCHANGED <<Settings, universe, point, ret>>

\* The head of the loop: prepare, and query with the id popped from the
\* list.  An empty list panics in pop().unwrap(), but in get_solarsystem,
\* which runs the query without a parameter.
BeginQuery(w) ==
    /\ pool.pc[w] = "loop"
    /\ LET n == Len(pool.parent_ids)
           binds == IF n > 0 THEN 1
                    ELSE IF pool.op = "get_solarsystem" THEN 0 ELSE -1
           holes == IF pool.locals[w].filtered THEN 1 ELSE 0
           id == IF n > 0 THEN pool.parent_ids[n] ELSE 0
       IN  pool' =
             IF binds = holes
             THEN [pool EXCEPT
                     !.parent_ids = SubSeq(@, 1, n - binds),
                     !.locals[w].rows =
                         PoolRows(db, pool.op, pool.locals[w].filtered, id),
                     !.pc[w] = "rows"]
             ELSE WorkerEnds([pool EXCEPT !.parent_ids =
                                 SubSeq(@, 1, n - (IF n > 0 THEN 1 ELSE 0))],
                             w, TRUE)
    /\ UNCHANGED <<Settings, universe, point, ret>>

\* while let Some(row) = rows.next().unwrap(): the rows become objects, in
\* temp_vec or straight in the shared list; then the loop ends when no
\* parent id is left.
EndQuery(w) ==
    /\ pool.pc[w] = "rows"
    /\ LET rows == pool.locals[w].rows
           stop == {i \in DOMAIN rows :
                      PoolRowPanics(db, pool.op, rows[i], invert_coordinates,
                                    overflow_checks)}
           n == IF stop = {} THEN Len(rows) ELSE SetMin(stop) - 1
           objs == [i \in 1..n |-> [id |-> rows[i], children |-> <<>>]]
           p1 == IF HasSecondQuery(pool.op)
                 THEN [pool EXCEPT !.locals[w].temp_vec = @ \o objs,
                                   !.locals[w].rows = <<>>]
                 ELSE [pool EXCEPT !.vec_objects = @ \o objs,
                                   !.locals[w].rows = <<>>]
       IN  pool' =
             IF stop # {} THEN WorkerEnds(p1, w, TRUE)
             ELSE IF pool.parent_ids # <<>> THEN [p1 EXCEPT !.pc[w] = "loop"]
             ELSE IF HasSecondQuery(pool.op)
             THEN [p1 EXCEPT !.pc[w] = "children"]
             ELSE WorkerEnds(p1, w, FALSE)
    /\ UNCHANGED <<Settings, universe, point, ret>>

\* for mut object in temp_vec: prepare and query for the next object; the
\* worker returns when none is left.
BeginChildQuery(w) ==
    /\ pool.pc[w] = "children"
    /\ pool' = IF pool.locals[w].temp_vec = <<>>
               THEN WorkerEnds(pool, w, FALSE)
               ELSE [pool EXCEPT !.pc[w] = "child_rows"]
    /\ UNCHANGED <<Settings, universe, point, ret>>

\* the rows of the object's query, then sh_objects.lock().unwrap().push(object)
EndChildQuery(w) ==
    /\ pool.pc[w] = "child_rows"
    /\ LET object == Head(pool.locals[w].temp_vec)
       IN  pool' = [pool EXCEPT
                      !.vec_objects =
                          Append(@, [object EXCEPT !.children =
                                        PoolChildren(db, pool.op, object.id)]),
                      !.locals[w].temp_vec = Tail(@),
                      !.pc[w] = "children"]
    /\ UNCHANGED <<Settings, universe, point, ret>>

\* handle.join().unwrap() of the next handle, then the objects pushed so
\* far are moved to the result; after the last handle the loader returns.
Join ==
    /\ pool.status = "running"
    /\ pool.spawned = MAX_THREADS
    /\ pool.joined < MAX_THREADS
    /\ pool.pc[pool.joined + 1] \in {"done", "panicked"}
    /\ IF pool.pc[pool.joined + 1] = "panicked"
       THEN /\ pool' = [pool EXCEPT !.status = "Panic"]
            /\ ret' = Call(pool.op, pool.filter,
                           Panic("called Result::unwrap() on an Err value"))
       ELSE LET res == pool.vec_result \o pool.vec_objects
                last == pool.joined + 1 = MAX_THREADS
            IN  /\ pool' = [pool EXCEPT !.joined = @ + 1, !.vec_result = res,
                                        !.vec_objects = <<>>,
                                        !.status = IF last THEN "Ok" ELSE @]
                /\ ret' = IF last THEN Call(pool.op, pool.filter, Ok(res))
                          ELSE ret
    /\ UNCHANGED <<Settings, universe, point>>

Worker(w) ==
    \/ LockConnection(w) \/ LockParentIds(w)
    \/ BeginQuery(w) \/ EndQuery(w)
    \/ BeginChildQuery(w) \/ EndChildQuery(w)

WorkerDBs ==
    {StructDB(1, <<1, 1>>, <<1, 2>>, "none"),
     PlanetDB(<<1, 1>>, <<1, 2>>)}

InitWorkers ==
    /\ db \in WorkerDBs
    /\ factor = 1
    /\ invert_coordinates = TRUE
    /\ overflow_checks = TRUE
    /\ universe = Universe_new
    /\ point = SdePoint_default
    /\ pool = NoPool
    /\ ret = NoCall

NextWorkers == PoolStart \/ Spawn \/ Join \/ \E w \in Workers : Worker(w)

SpecWorkers == InitWorkers /\ [][NextWorkers]_vars

(***************************************************************************)
(* SpecGates: get_solarsystem on sources with stargates                    *)
(***************************************************************************)
\* The gate of solar system a that leads to solar system b.
GateId(a, b) == 50000000 + 10 * a + b

GateLinks ==
    {l \in (1..MaxGateSystems) \X (1..MaxGateSystems) : l[1] # l[2]}

\* A source with solar systems 1..MaxGateSystems spread over the
\* constellations, each with its own centre, and one gate per link of E; the gate of a to b has the
\* gate of b to a as its destination, a row of the table only if that link
\* is in E too.
GateDB(E) ==
    [regions        |-> (RegionId(1) :> [regionName |-> RegionName(1)]),
     constellations |-> [c \in {ConstellationId(k) : k \in 1..MaxConstellations} |->
                            LET k == c - ConstellationId(0)
                            IN  [constellationName |-> ConstellationName(k),
                                 regionId |-> RegionId(1),
                                 center |-> SdePoint(k, -k, k - 2)]],
     systems        |-> [x \in {SystemId(k) : k \in 1..MaxGateSystems} |->
                            LET k == x - SystemId(0)
                            IN  [solarSystemName |-> SystemName(k),
                                 constellationId |->
                                    ConstellationId(((k - 1) % MaxConstellations) + 1),
                                 center |-> SdePoint(k - 2, 2 - k, k - 1),
                                 proj |-> SdePoint(k, 1 - k, k)]],
     connections    |-> <<>>,
     gates          |-> [g \in {GateId(l[1], l[2]) : l \in E} |->
                            LET l == CHOOSE m \in E : GateId(m[1], m[2]) = g
                            IN  [solarSystemId |-> SystemId(l[1]),
                                 destination |-> GateId(l[2], l[1])]],
     planets        |-> NoRows,
     moons          |-> NoRows]

GateDBs == {GateDB(E) : E \in SUBSET GateLinks}

InitGates ==
    /\ db \in GateDBs
    /\ factor = 1
    /\ invert_coordinates = TRUE
    /\ overflow_checks = TRUE
    /\ universe = Universe_new
    /\ point = SdePoint_default
    /\ pool = NoPool
    /\ ret = NoCall

NextGates == GetSolarsystem \/ DropResult

SpecGates == InitGates /\ [][NextGates]_vars

(***************************************************************************)
(* Spec: a manager loading the universe of a source                        *)
(***************************************************************************)
\* Every constellation of the source is in a region of the source and every
\* solar system in a constellation of the source.
ForeignKeysHold(d) ==
    /\ \A c \in DOMAIN d.constellations :
          d.constellations[c].regionId \in DOMAIN d.regions
    /\ \A x \in DOMAIN d.systems :
          d.systems[x].constellationId \in DOMAIN d.constellations

Init ==
    /\ db \in {d \in StructDBs : ForeignKeysHold(d)}
    /\ factor = 1
    /\ invert_coordinates = TRUE
    /\ overflow_checks = TRUE
    /\ universe = Universe_new
    /\ point = SdePoint_default
    /\ pool = NoPool
    /\ ret = NoCall

Next == GetUniverse

Spec == Init /\ [][Next]_vars

(***************************************************************************)
(* SpecReload: a manager loading a source that changes between the loads   *)
(***************************************************************************)
\* The sources without a defect that have solar systems and whose parent
\* ids are rows of the parent tables.
ReloadDBs ==
    {d \in {StructDB(nr, cp, sp, "none") :
                nr \in 0..MaxRegions,
                cp \in ParentsUpTo(MaxConstellations, MaxRegions),
                sp \in ParentsUpTo(MaxSystems, MaxConstellations)} :
        ForeignKeysHold(d) /\ DOMAIN d.systems # {}}

\* The file of the source is replaced by another one once the first load
\* of a new manager has returned Ok; the caller keeps no result of a call on
\* the old file.
ChangeSource ==
    /\ ret.op = "get_universe" /\ ret.status = "Ok"
    /\ ret.args = Universe_new
    /\ db' \in ReloadDBs \ {db}
    /\ ret' = NoCall
    /\ UNCHANGED <<factor, invert_coordinates, overflow_checks, universe, point,
                   pool>>

InitReload ==
    /\ db \in ReloadDBs
    /\ factor = 1
    /\ invert_coordinates = TRUE
    /\ overflow_checks = TRUE
    /\ universe = Universe_new
    /\ point = SdePoint_default
    /\ pool = NoPool
    /\ ret = NoCall

NextReload == GetUniverse \/ ChangeSource

SpecReload == InitReload /\ [][NextReload]_vars

(***************************************************************************)
(* Claims                                                                  *)
(***************************************************************************)
ZeroAxes(p) == {a \in {"x", "y", "z"} : p[a] = 0}

\* What the scale-and-invert step is specified to give on one axis.
ScaledAxis(a, s, invert) == IF invert THEN -TruncDiv(a, s) ELSE TruncDiv(a, s)

ScaledPoint(p, s, invert) ==
    SdePoint(ScaledAxis(p.x, s, invert), ScaledAxis(p.y, s, invert),
             ScaledAxis(p.z, s, invert))

\* C1: for every raw point p and every u64 factor s > 0, get_system_coords
\* and get_systempoints give p.axis / s (truncating) on each axis when
\* invert_coordinates is off and -(p.axis / s) when it is on.
\* (Stated for the points whose scaled and inverted axes fit an i64.)
C1_ScaleAndInvert ==
    /\ (ret.op = "get_system_coords" /\ factor > 0
            /\ ret.args \in DOMAIN db.systems) =>
         LET row == db.systems[ret.args]
             p == SdePoint_from_f32(AsF32(row.proj.x), AsF32(row.proj.y),
                                    AsF32(row.proj.z))
             want == ScaledPoint(p, factor, invert_coordinates)
         IN  want \in Points =>
                (ret.status = "Ok" /\ ret.value = Some(want))
    /\ (ret.op = "get_systempoints" /\ factor > 0) =>
         \A i \in DOMAIN db.systems :
            LET want == ScaledPoint(RawOfRow(db.systems[i]), factor,
                                    invert_coordinates)
            IN  want \in Points =>
                  /\ ret.status = "Ok"
                  /\ ret.value[i].raw = to_rawpoint(want)

\* C2: the projection of an SdePoint with exactly one zero axis returns the
\* two other axes in x, y, z order, and the projection of a point with no
\* zero axis fails with the projection-ambiguous (NotFound) error.
C2_ProjectionOneZeroAxis ==
    LET p == ret.args
        others == SortedIds({i \in 1..3 : <<p.x, p.y, p.z>>[i] # 0})
        pair == <<(<<p.x, p.y, p.z>>)[others[1]], (<<p.x, p.y, p.z>>)[others[2]]>>
    IN  /\ ret.op = "try_into_i64x2" =>
            /\ Cardinality(ZeroAxes(p)) = 1 =>
                  ret.status = "Ok" /\ ret.value = pair
            /\ ZeroAxes(p) = {} =>
                  ret.status = "Err" /\ ret.value = "NotFound"
        /\ ret.op = "try_into_f32x2" =>
            /\ Cardinality(ZeroAxes(p)) = 1 =>
                  ret.status = "Ok"
                  /\ ret.value = <<AsF32(pair[1]), AsF32(pair[2])>>
            /\ ZeroAxes(p) = {} =>
                  ret.status = "Err" /\ ret.value = "NotFound"

\* A point with y = 0 and x, z nonzero was projected to (x, z).
C2_Witness ==
    /\ ret.op = "try_into_f32x2"
    /\ ret.args.y = 0 /\ ret.args.x # 0 /\ ret.args.z # 0
    /\ ret.args.x # ret.args.z
    /\ ret.status = "Ok"
    /\ ret.value = <<AsF32(ret.args.x), AsF32(ret.args.z)>>

\* C3: the projection fails with the projection-ambiguous error whenever
\* more than one axis of the point is zero; it never returns a pair then.
C3_ProjectionSeveralZeroAxes ==
    (ret.op \in {"try_into_f32x2", "try_into_i64x2"}
        /\ Cardinality(ZeroAxes(ret.args)) > 1) =>
      (ret.status = "Err" /\ ret.value = "NotFound")

\* The rows of the source that connect the systems a and b, in either
\* direction, both being solar systems of the source.
RowsOfPair(d, a, b) ==
    {i \in DOMAIN d.connections :
        /\ {d.connections[i].systemA, d.connections[i].systemB} = {a, b}
        /\ {a, b} \subseteq DOMAIN d.systems}

\* C4: for every pair of distinct solar systems connected in the source,
\* get_connections returns exactly one line for that undirected pair,
\* whatever the order and direction of the connection rows.
C4_OneLinePerPair ==
    ret.op = "get_connections" =>
      /\ ret.status = "Ok"
      /\ \A a, b \in DOMAIN db.systems :
            (a < b /\ RowsOfPair(db, a, b) # {}) =>
              Cardinality({id \in DOMAIN ret.value :
                            \E i \in RowsOfPair(db, a, b) :
                               db.connections[i].systemConnectionId = id}) = 1

\* The ids of the rows in which system k is systemA or systemB.
IncidentIds(d, k) ==
    {d.connections[i].systemConnectionId :
        i \in {j \in DOMAIN d.connections :
                 d.connections[j].systemA = k \/ d.connections[j].systemB = k}}

C7_FailureLeavesUniverse ==
    (ret.op = "get_universe" /\ ret.status = "Err") => universe = ret.args

\* The ids held by the maps of a universe, and by its name dictionaries.
MapIds(u) ==
    DOMAIN u.regions \cup DOMAIN u.constellations \cup DOMAIN u.solar_systems

DictIds(u) ==
    {u.dicts.region_names[n] : n \in DOMAIN u.dicts.region_names}
        \cup {u.dicts.constellation_names[n] :
                n \in DOMAIN u.dicts.constellation_names}
        \cup {u.dicts.system_names[n] : n \in DOMAIN u.dicts.system_names}

\* C8: when a tier loader fails inside get_universe, get_universe returns
\* Err, and no entity the failing loader had decoded is put by the call into
\* a map or a name dictionary of the universe.
C8_FailedTierMergesNothing ==
    (ret.op = "get_universe" /\ ret.failed # "none") =>
      /\ ret.status = "Err"
      /\ \A id \in ret.decoded :
            /\ id \in MapIds(universe) => id \in MapIds(ret.args)
            /\ id \in DictIds(universe) => id \in DictIds(ret.args)

\* The parent ids present in the table a tier loader reads.
ParentIds(d, op) ==
    CASE op = "get_region" -> DOMAIN d.regions
      [] op = "get_constellation" ->
            {d.constellations[c].regionId : c \in DOMAIN d.constellations}
      [] op = "get_solarsystem" ->
            {d.systems[x].constellationId : x \in DOMAIN d.systems}
      [] op = "get_planet" ->
            {d.planets[x].solarSystemId : x \in DOMAIN d.planets}
      [] op = "get_moon" -> {d.moons[x].planetId : x \in DOMAIN d.moons}

\* The tier loader `op` called on the manager with the filter F.
LoaderCall(op, F) ==
    CASE op = "get_region" -> get_region(db, F, "none")
      [] op = "get_constellation" -> get_constellation(db, F, "none")
      [] op = "get_solarsystem" ->
            get_solarsystem(db, F, factor, invert_coordinates,
                            overflow_checks, "none")
      [] op = "get_planet" -> get_planet(db, F, "none")
      [] op = "get_moon" -> get_moon(db, F, "none")

TierLoaders ==
    {"get_region", "get_constellation", "get_solarsystem", "get_planet",
     "get_moon"}

\* A source whose solar systems have u32 ids and whose parent ids are rows
\* of the parent tables.
WellFormed(d) ==
    /\ ForeignKeysHold(d)
    /\ \A x \in DOMAIN d.systems : IsU32(x)

\* C9: each tier loader called with an empty filter on a table that has
\* rows (of a well-formed source) returns Ok with as many entities as the
\* call whose filter holds every parent id present in the table.
C9_EmptyFilterIsFullFilter ==
    (ret.op \in TierLoaders /\ ret.args = {} /\ WellFormed(db)
        /\ ParentIds(db, ret.op) # {}) =>
      LET full == LoaderCall(ret.op, ParentIds(db, ret.op))
      IN  /\ ret.status = "Ok"
          /\ full.status = "Ok"
          /\ Len(ret.value) = Len(full.value)

\* The rows a filtered call is to return: those whose parent id is in F
\* (for a solar system, with its constellation in the source).
MatchingRows(d, op, F) ==
    CASE op = "get_constellation" ->
            {c \in DOMAIN d.constellations : d.constellations[c].regionId \in F}
      [] op = "get_solarsystem" ->
            {x \in DOMAIN d.systems :
                /\ d.systems[x].constellationId \in F
                /\ d.systems[x].constellationId \in DOMAIN d.constellations}
      [] op = "get_planet" ->
            {x \in DOMAIN d.planets : d.planets[x].solarSystemId \in F}

\* C10: get_constellation, get_solarsystem and get_planet called on a
\* well-formed source with a non-empty filter F return exactly the rows
\* whose parent id is in F, each of them once.
C10_FilterReturnsMatchingRows ==
    (ret.op \in {"get_constellation", "get_solarsystem", "get_planet"}
        /\ ret.args # {} /\ WellFormed(db)) =>
      /\ ret.status = "Ok"
      /\ Ids(ret.value) = MatchingRows(db, ret.op, ret.args)
      /\ Len(ret.value) = Cardinality(MatchingRows(db, ret.op, ret.args))

\* The numbers of regions, constellations and solar systems of a universe.
Counts(u) ==
    <<Cardinality(DOMAIN u.regions), Cardinality(DOMAIN u.constellations),
      Cardinality(DOMAIN u.solar_systems)>>

\* A get_universe call in which the environment failed no query.
Undisturbed(r) ==
    /\ r.op = "get_universe"
    /\ r.status = "Ok" \/ r.value \notin {"CannotOpen", "SqliteFailure"}

\* C11: a get_universe call that follows a get_universe call on the same
\* manager, the source unchanged and no query failed by the environment in
\* either call, leaves as many regions, constellations and solar systems in
\* the universe as the first call left.
C11_ReloadKeepsCounts ==
    [][(Undisturbed(ret) /\ Undisturbed(ret'))
          => Counts(universe') = Counts(universe)]_vars

\* A second call has returned Ok on a universe that the first call had
\* filled with regions, constellations and solar systems.
C11_Witness ==
    /\ Undisturbed(ret) /\ ret.status = "Ok"
    /\ ret.args = universe
    /\ universe.regions # NoRows
    /\ universe.constellations # NoRows
    /\ universe.solar_systems # NoRows

\* The ids of the constellations of region r and of the solar systems of
\* constellation c in the source, in row order.
ConstellationsOf(d, r) ==
    SortedIds({c \in DOMAIN d.constellations : d.constellations[c].regionId = r})

SystemsOf(d, c) ==
    SortedIds({x \in DOMAIN d.systems : d.systems[x].constellationId = c})

\* C12: after a get_universe call that returns Ok, the universe holds
\* exactly the regions, constellations and solar systems of the source as it
\* is at that call, each with the name and the children the source gives it
\* at that call, whatever an earlier call had loaded.
C12_FreshSnapshot ==
    (ret.op = "get_universe" /\ ret.status = "Ok") =>
      /\ DOMAIN universe.regions = DOMAIN db.regions
      /\ DOMAIN universe.constellations = DOMAIN db.constellations
      /\ DOMAIN universe.solar_systems = DOMAIN db.systems
      /\ \A r \in DOMAIN universe.regions \cap DOMAIN db.regions :
            /\ universe.regions[r].name = db.regions[r].regionName
            /\ universe.regions[r].constellations = ConstellationsOf(db, r)
      /\ \A c \in DOMAIN universe.constellations \cap DOMAIN db.constellations :
            /\ universe.constellations[c].name
                  = db.constellations[c].constellationName
            /\ universe.constellations[c].region = db.constellations[c].regionId
            /\ universe.constellations[c].solar_systems = SystemsOf(db, c)
      /\ \A x \in DOMAIN universe.solar_systems \cap DOMAIN db.systems :
            universe.solar_systems[x].name = db.systems[x].solarSystemName

\* C13: after a get_universe call that returns Ok, the region of every
\* constellation of the universe is a key of universe.regions, the
\* constellation of every solar system is a key of universe.constellations
\* and is the constellation the source gives that system, and the region of
\* every solar system is a key of universe.regions.
C13_ParentsAreLoaded ==
    (ret.op = "get_universe" /\ ret.status = "Ok") =>
      /\ \A c \in DOMAIN universe.constellations :
            universe.constellations[c].region \in DOMAIN universe.regions
      /\ \A x \in DOMAIN universe.solar_systems :
            /\ universe.solar_systems[x].constellation
                  \in DOMAIN universe.constellations
            /\ x \in DOMAIN db.systems =>
                  universe.solar_systems[x].constellation
                      = db.systems[x].constellationId
            /\ universe.solar_systems[x].region \in DOMAIN universe.regions

\* C14: when get_systempoints returns Ok, its map has exactly one point for
\* each solar-system row whose id is in 30000000..30999999 (bounds
\* included), keyed by that id and carrying that id and the row's name, and
\* no point for any other id; on a source whose systems are all in the band
\* it has as many points as the source has solar systems.
C14_SystemPointsOfBand ==
    (ret.op = "get_systempoints" /\ ret.status = "Ok") =>
      /\ DOMAIN ret.value =
            {i \in DOMAIN db.systems : 30000000 <= i /\ i <= 30999999}
      /\ \A i \in DOMAIN ret.value :
            /\ ret.value[i].id = i
            /\ ret.value[i].name = db.systems[i].solarSystemName
      /\ (\A i \in DOMAIN db.systems : 30000000 <= i /\ i <= 30999999) =>
            Cardinality(DOMAIN ret.value) = Cardinality(DOMAIN db.systems)

\* Points were returned for the systems 30000000 and 30999999 of a source
\* that also has the systems 29999999 and 31000000.
C14_Witness ==
    /\ ret.op = "get_systempoints" /\ ret.status = "Ok"
    /\ {29999999, 30000000, 30999999, 31000000} \subseteq DOMAIN db.systems
    /\ {30000000, 30999999} \subseteq DOMAIN ret.value
    /\ ret.value[30999999].name = "Last"

IndexOf(dict, map) ==
    /\ \A i \in DOMAIN map :
          /\ to_lowercase(map[i].name) \in DOMAIN dict
          /\ dict[to_lowercase(map[i].name)] \in DOMAIN map
          /\ map[dict[to_lowercase(map[i].name)]].name = map[i].name
    /\ \A n \in DOMAIN dict : dict[n] \in DOMAIN map

\* C16: after a get_universe call that returns Ok, dicts.region_names
\* indexes the regions of the universe by lower-cased name,
\* dicts.constellation_names its constellations and dicts.system_names its
\* solar systems, and no dictionary holds an id of another entity type.
C16_NameIndex ==
    (ret.op = "get_universe" /\ ret.status = "Ok") =>
      /\ IndexOf(universe.dicts.region_names, universe.regions)
      /\ IndexOf(universe.dicts.constellation_names, universe.constellations)
      /\ IndexOf(universe.dicts.system_names, universe.solar_systems)

\* C17: the solar-system path scales and inverts in the same order as the
\* other call sites, dividing by the factor first and negating the quotient
\* after: for a factor f with 0 < f <= i64::MAX and a projected x whose
\* scaled and inverted value fits an i64, get_solarsystem followed by
\* coord2d_to_f64 or coord3d_to_f64 gives that value as an f64.
C17_DivideBeforeNegate ==
    (/\ ret.op \in {"coord2d_to_f64", "coord3d_to_f64"}
     /\ 0 < factor /\ factor <= I64_MAX) =>
      LET want == ScaledAxis(db.systems[ret.args].proj.x, factor,
                             invert_coordinates)
      IN  want \in I64 => (ret.status = "Ok" /\ ret.value[1] = AsF64(want))

OneGateAway(d, x) ==
    {t \in DOMAIN d.systems :
        \E h, g \in DOMAIN d.gates :
            /\ d.gates[h].solarSystemId = x
            /\ d.gates[h].destination = g
            /\ d.gates[g].solarSystemId = t}

\* C19: every solar system S returned by get_solarsystem has in
\* S.connections exactly the solar systems one gate away from S; a system
\* reached from S only through two or more gates is not in S.connections.
C19_OneHopNeighbours ==
    (ret.op = "get_solarsystem" /\ ret.status = "Ok") =>
        \A i \in DOMAIN ret.value :
            SeqToSet(ret.value[i].connections) = OneGateAway(db, ret.value[i].id)

\* A loaded solar system with a neighbour one gate away and another system
\* two gates away that is not its neighbour.
C19_Witness ==
    /\ ret.op = "get_solarsystem" /\ ret.status = "Ok"
    /\ \E i \in DOMAIN ret.value :
          \E t, u \in DOMAIN db.systems :
              /\ t \in SeqToSet(ret.value[i].connections)
              /\ u \in OneGateAway(db, t)
              /\ u # ret.value[i].id
              /\ u \notin OneGateAway(db, ret.value[i].id)
              /\ u \notin SeqToSet(ret.value[i].connections)

\* The workers that have a statement running on the shared connection.
Querying == {w \in Workers : pool.pc[w] \in QueryPcs}

\* C20: in the worker-pool loaders of Universe, with the 8 workers sharing
\* the one connection, at most one worker is executing a query on the
\* connection at any time, whatever the interleaving.
C20_OneQueryAtATime == Cardinality(Querying) <= 1

\* A worker executes a query while another worker, spawned, waits for the
\* connection, and a third has already run its queries and returned.
C20_Witness ==
    /\ Cardinality(Querying) = 1
    /\ \E w \in Workers : pool.pc[w] = "spawned"
    /\ \E w \in Workers : pool.pc[w] = "done"

\* C21: get_abstract_connections called with a non-empty list of regions
\* returns only lines of connections whose two ends are in different
\* regions, one per such connection id.
C21_OnlyEdgesAcrossRegions ==
    (ret.op = "get_abstract_connections" /\ ret.args # {}) =>
        /\ ret.status = "Ok"
        /\ \A id \in DOMAIN ret.value :
              \E i \in DOMAIN db.connections :
                 /\ db.connections[i].systemConnectionId = id
                 /\ db.abstractSystems[db.connections[i].systemA].regionId
                      # db.abstractSystems[db.connections[i].systemB].regionId

\* The SolarSystem that get_solarsystem returns for the solar system id.
LoadedSystem(id) ==
    LET r == get_solarsystem(db, DOMAIN db.constellations, factor,
                             invert_coordinates, overflow_checks, "none")
    IN  r.value[CHOOSE i \in DOMAIN r.value : r.value[i].id = id]

\* C22: for a factor f with 0 < f <= i64::MAX, coord2d_to_f64 of a
\* SolarSystem is [projected_coords.x / f, projected_coords.y / f] and
\* coord3d_to_f64 is [real_coords.x / f, real_coords.y / f,
\* real_coords.z / f], the quotients truncated.
C22_FloatCoordinates ==
    (/\ ret.op \in {"coord2d_to_f64", "coord3d_to_f64"}
     /\ 0 < factor /\ factor <= I64_MAX) =>
      LET s == LoadedSystem(ret.args)
          q(a) == AsF64(TruncDiv(a, factor))
      IN  /\ ret.status = "Ok"
          /\ ret.op = "coord2d_to_f64" =>
                ret.value = <<q(s.projected_coords.x), q(s.projected_coords.y)>>
          /\ ret.op = "coord3d_to_f64" =>
                ret.value = <<q(s.real_coords.x), q(s.real_coords.y),
                              q(s.real_coords.z)>>

\* C23: Universe::get_solarsystem returns each solar system at most once:
\* with a filter the solar systems of the constellations of the filter,
\* with none every solar system, one copy of each, whatever the
\* interleaving of the workers.
C23_EachSystemOnce ==
    (pool.op = "get_solarsystem" /\ pool.status = "Ok") =>
      LET res == pool.vec_result
          want == {x \in DOMAIN db.systems :
                     /\ db.systems[x].constellationId \in DOMAIN db.constellations
                     /\ pool.filter # <<>> =>
                          db.systems[x].constellationId \in SeqToSet(pool.filter)}
      IN  /\ {res[i].id : i \in DOMAIN res} = want
          /\ \A i, j \in DOMAIN res : res[i].id = res[j].id => i = j

\* C24: in Universe::get_constellation, get_planet and get_moon called with
\* a non-empty filter, no worker panics and the joining thread does not
\* panic, whatever the interleaving.
C24_NoWorkerPanics ==
    (/\ pool.op \in {"get_constellation", "get_planet", "get_moon"}
     /\ pool.filter # <<>>) =>
        /\ \A w \in Workers : pool.pc[w] # "panicked"
        /\ pool.status # "Panic"

\* C25: Universe::get_region called with Some(ids), ids not empty, returns
\* Ok with every region of the source whose id is in ids, also when ids has
\* several elements and when no region matches (an empty list, no panic).
C25_RegionsOfFilter ==
    (/\ ret.op = "Universe::get_region"
     /\ ret.args.some /\ ret.args.v # <<>>) =>
        /\ ret.status = "Ok"
        /\ {ret.value[i].id : i \in DOMAIN ret.value}
             = SeqToSet(ret.args.v) \cap DOMAIN db.regions

\* C26: SdeManager::get_moon called with a non-empty list of planets
\* returns Ok with the moons whose planetId is in the list, and no other,
\* for a list of one id and for a list of several.
C26_MoonsOfPlanets ==
    (ret.op = "get_moon" /\ ret.args # {}) =>
        /\ ret.status = "Ok"
        /\ {ret.value[i].id : i \in DOMAIN ret.value}
             = {x \in DOMAIN db.moons : db.moons[x].planetId \in ret.args}

\* C27: every SolarSystem returned by get_solarsystem has as real_coords
\* the centre of its own row of the solar-system table, negated when
\* invert_coordinates is set.
C27_OwnCentre ==
    (ret.op = "get_solarsystem" /\ ret.status = "Ok") =>
        \A i \in DOMAIN ret.value :
            LET c == db.systems[ret.value[i].id].center
                sgn(a) == IF invert_coordinates THEN -a ELSE a
            IN  ret.value[i].real_coords = SdePoint(sgn(c.x), sgn(c.y), sgn(c.z))

\* C28: after a get_universe call that returns Ok, each region lists in
\* constellations the loaded constellations whose region it is, and each
\* constellation lists in solar_systems the loaded solar systems whose
\* constellation field is its id.
C28_ParentsAndChildrenAgree ==
    (ret.op = "get_universe" /\ ret.status = "Ok") =>
      /\ \A r \in DOMAIN universe.regions :
            SeqToSet(universe.regions[r].constellations)
              = {c \in DOMAIN universe.constellations :
                    universe.constellations[c].region = r}
      /\ \A c \in DOMAIN universe.constellations :
            SeqToSet(universe.constellations[c].solar_systems)
              = {x \in DOMAIN universe.solar_systems :
                    universe.solar_systems[x].constellation = c}

\* C29: with the same settings, both calls return Ok and the point that
\* get_systempoints gives for a solar system of the 30000000..30999999
\* band lies, on x and on z, between the min and the max of the area that
\* get_region_coordinates gives for the region of that system.
C29_PointsInsideAreas ==
    ret.op = "areas_and_points" =>
      \A s \in DOMAIN db.systems :
        (/\ InBand(s)
         /\ db.systems[s].constellationId \in DOMAIN db.constellations
         /\ db.constellations[db.systems[s].constellationId].regionId
               \in DOMAIN db.regions) =>
          LET r == db.constellations[db.systems[s].constellationId].regionId
              areas == ret.value.areas
              points == ret.value.points
          IN  /\ areas.status = "Ok" /\ points.status = "Ok"
              /\ \E i \in DOMAIN areas.value :
                    /\ areas.value[i].region_id = r
                    /\ areas.value[i].min.x <= points.value[s].raw[1]
                    /\ points.value[s].raw[1] <= areas.value[i].max.x
                    /\ areas.value[i].min.z <= points.value[s].raw[2]
                    /\ points.value[s].raw[2] <= areas.value[i].max.z

\* C30: get_systempoints and get_system_coords do not panic when the
\* factor is 0, and for a factor of 2^63 or more get_system_coords divides
\* by the factor itself, a positive number: each axis is raw / factor,
\* negated when inverting.
C30_EveryFactorIsSafe ==
    ret.op \in {"get_systempoints", "get_system_coords"} =>
      /\ factor = 0 => ret.status # "Panic"
      /\ (/\ factor > I64_MAX
          /\ ret.op = "get_system_coords"
          /\ ret.args \in DOMAIN db.systems) =>
            LET want == ScaledPoint(RawOfRow(db.systems[ret.args]), factor,
                                    invert_coordinates)
            IN  want \in Points =>
                  (ret.status = "Ok" /\ ret.value = Some(want))

====
